---- MODULE Spec2Model ----
(***************************************************************************)
(* Model of simulador_streamlit.py: a Streamlit script that is executed    *)
(* from top to bottom once per render cycle.  The widget values and the    *)
(* contents of demanda_historica_y_predicha.csv are the inputs of a cycle; *)
(* the data frames, the result list and the emitted output elements are    *)
(* what a cycle leaves behind.                                             *)
(*                                                                         *)
(* Python floats are modelled as exact rationals [num, den] in lowest      *)
(* terms; strings that the script transforms (the Tipo labels, the         *)
(* horizon option) are sequences of one-character strings.                 *)
(***************************************************************************)
EXTENDS Integers, Sequences, FiniteSets, TLC

----------------------------------------------------------------------------
\* F applied to the value of x, with x evaluated once.
Con(x, F(_)) == CHOOSE r \in {F(v) : v \in {x}} : TRUE

----------------------------------------------------------------------------
(* Exact rational arithmetic standing for Python float arithmetic.         *)

Abs(n) == IF n < 0 THEN -n ELSE n

RECURSIVE Gcd(_, _)
Gcd(a, b) == IF b = 0 THEN a ELSE Gcd(b, a % b)

\* The rational n/d (d # 0) in lowest terms with a positive denominator.
Rat(n, d) ==
    LET g == Gcd(Abs(n), Abs(d))
        s == IF d < 0 THEN -1 ELSE 1
    IN  [num |-> s * (n \div g), den |-> s * (d \div g)]

FromInt(n) == [num |-> n, den |-> 1]

\* x * y, cancelling common factors before multiplying.
Mul(x, y) ==
    LET g1 == Gcd(Abs(x.num), y.den)
        g2 == Gcd(Abs(y.num), x.den)
    IN  [num |-> (x.num \div g1) * (y.num \div g2),
         den |-> (x.den \div g2) * (y.den \div g1)]

\* x / y for y # 0 (the caller decides what a zero divisor does).
Div(x, y) ==
    Mul(x, IF y.num < 0 THEN [num |-> -y.den, den |-> -y.num]
                        ELSE [num |-> y.den, den |-> y.num])

IsZero(x) == x.num = 0
IsNeg(x) == x.num < 0

\* x < y, comparing integer parts first so that no product overflows.
Less(x, y) ==
    LET fx == x.num \div x.den
        fy == y.num \div y.den
    IN  IF fx # fy THEN fx < fy
        ELSE (x.num % x.den) * y.den < (y.num % y.den) * x.den

Leq(x, y) == x = y \/ Less(x, y)

----------------------------------------------------------------------------
(* Strings as sequences of characters.                                     *)

LowerChars == <<"a", "c", "d", "e", "h", "i", "o", "p", "r", "s", "t">>
UpperChars == <<"A", "C", "D", "E", "H", "I", "O", "P", "R", "S", "T">>

IndexIn(c, alphabet) ==
    IF \E i \in 1..Len(alphabet) : alphabet[i] = c
    THEN CHOOSE i \in 1..Len(alphabet) : alphabet[i] = c
    ELSE 0

\* str.upper() and str.lower() of one character, as tables.
Mayusculas == [c \in {LowerChars[i] : i \in 1..Len(LowerChars)} |->
                 UpperChars[IndexIn(c, LowerChars)]]
Minusculas == [c \in {UpperChars[i] : i \in 1..Len(UpperChars)} |->
                 LowerChars[IndexIn(c, UpperChars)]]

upper(c) == IF c \in DOMAIN Mayusculas THEN Mayusculas[c] ELSE c
lower(c) == IF c \in DOMAIN Minusculas THEN Minusculas[c] ELSE c

\* str.capitalize(): first character upper-cased, all the others lower-cased.
capitalize(s) ==
    [i \in 1..Len(s) |-> IF i = 1 THEN upper(s[i]) ELSE lower(s[i])]

\* str.split()[0]: the characters before the first blank.
RECURSIVE FirstWord(_)
FirstWord(s) ==
    IF s = <<>> \/ Head(s) = " " THEN <<>> ELSE <<Head(s)>> \o FirstWord(Tail(s))

Digits == <<"0", "1", "2", "3", "4", "5", "6", "7", "8", "9">>

\* int(): decimal digits to a number.
RECURSIVE ParseInt(_)
ParseInt(s) ==
    IF s = <<>> THEN 0
    ELSE 10 * ParseInt(SubSeq(s, 1, Len(s) - 1)) + (IndexIn(s[Len(s)], Digits) - 1)

\* "needle in haystack" for strings.
Contains(needle, haystack) ==
    \E i \in 0..(Len(haystack) - Len(needle)) :
        SubSeq(haystack, i + 1, i + Len(needle)) = needle

----------------------------------------------------------------------------
(* Literals of the script (accented letters are written unaccented).       *)

s_predicha == <<"p", "r", "e", "d", "i", "c", "h", "a">>
s_Predicha == <<"P", "r", "e", "d", "i", "c", "h", "a">>
s_Pequena  == <<"P", "e", "q", "u", "e", "n", "a">>
s_Mediana  == <<"M", "e", "d", "i", "a", "n", "a">>

n_Pequena == s_Pequena \o <<" ", "(", "1", "0", "0", " ", "k", "W", ")">>
n_Mediana == s_Mediana \o <<" ", "(", "1", " ", "M", "W", ")">>
n_Grande  == <<"G", "r", "a", "n", "d", "e", " ", "(", "5", " ", "M", "W", ")">>

\* The keys of the escenarios dict, in insertion order.
nombres == <<n_Pequena, n_Mediana, n_Grande>>

s_dias == <<" ", "d", "i", "a", "s">>
\* The options of the horizon selectbox; the first one is its default.
opciones == << <<"7">> \o s_dias, <<"1", "5">> \o s_dias, <<"3", "0">> \o s_dias >>

\* Widget defaults.
H_default   == Rat(45, 10)
PR_default  == Rat(80, 100)
kwh_default == Rat(30, 10)
co2_default == Rat(22, 10)
cop_default == Rat(255359, 100)
escenarios_default == [i \in 1..3 |-> TRUE]

\* Slider ranges.
H_min  == Rat(10, 10)
H_max  == Rat(80, 10)
PR_min == Rat(60, 100)
PR_max == Rat(95, 100)

\* What "inicio_pred = None" is written as (real dates are >= 1).
None == 0

Columnas == {"Fecha", "ACTIVA", "Tipo"}

----------------------------------------------------------------------------
(* The data frame operations the script uses.  A frame is a sequence of    *)
(* rows [Fecha, ACTIVA, Tipo]; a file also says which columns it has.      *)

\* DataFrame.sort_values("Fecha") is not a stable sort: rows with equal
\* dates come out in an order the caller does not control.  Two outcomes are
\* modelled, chosen by tb: ties in file order and ties in reverse file order.
Desempates == {"orden", "inverso"}

RECURSIVE Insert(_, _)
Insert(row, sorted) ==
    IF sorted = <<>> \/ row.Fecha < Head(sorted).Fecha
    THEN <<row>> \o sorted
    ELSE Con(Tail(sorted), LAMBDA resto : <<Head(sorted)>> \o Insert(row, resto))

RECURSIVE StableSort(_)
StableSort(rows) ==
    IF rows = <<>> THEN <<>>
    ELSE Con(StableSort(SubSeq(rows, 1, Len(rows) - 1)),
             LAMBDA sorted : Insert(rows[Len(rows)], sorted))

Reverse(rows) == [i \in 1..Len(rows) |-> rows[Len(rows) + 1 - i]]

sort_values(rows, tb) ==
    IF tb = "orden" THEN StableSort(rows) ELSE StableSort(Reverse(rows))

\* DataFrame.head(n): the first n rows, or all of them when there are fewer.
head(rows, n) == SubSeq(rows, 1, IF n < Len(rows) THEN n ELSE Len(rows))

\* df[df["Tipo"] == etiqueta]
PorTipo(rows, etiqueta) ==
    LET Es(row) == row.Tipo = etiqueta IN SelectSeq(rows, Es)

\* df["Tipo"] = df["Tipo"].str.capitalize()
CapitalizarTipo(rows) ==
    [i \in 1..Len(rows) |-> [rows[i] EXCEPT !.Tipo = capitalize(rows[i].Tipo)]]

\* Series.min() of the dates of a non-empty frame.
FechaMin(rows) ==
    CHOOSE f \in {rows[i].Fecha : i \in 1..Len(rows)} :
        \A i \in 1..Len(rows) : f <= rows[i].Fecha

\* int(horizonte.split()[0])
dias_de(opcion) == ParseInt(FirstWord(opcion))

----------------------------------------------------------------------------
(* Benefits per scenario.                                                  *)

\* calcular_beneficios with the horizon fixed at 30 days, as in the caption.
calcular_beneficios_30(capacidad_kw, label, g, st) ==
    LET e == Mul(Mul(Mul(FromInt(capacidad_kw), g.H), g.PR), FromInt(30))
        d == Div(e, g.kwh_por_litro)
    IN  IF IsZero(g.kwh_por_litro)
        THEN [st EXCEPT !.err = "ZeroDivisionError"]
        ELSE [st EXCEPT
                !.resultados = Append(@, [Escenario |-> label, Energia |-> e,
                                          Diesel |-> d,
                                          CO2 |-> Mul(d, g.co2_por_litro),
                                          Ahorro |-> Mul(d, g.cop_diesel)]),
                !.out = @ \o <<"metric", "metric", "metric", "metric">>]

\* calcular_beneficios with the capacity left out of the product.
calcular_beneficios_sin_capacidad(capacidad_kw, label, g, st) ==
    LET e == Mul(Mul(g.H, g.PR), FromInt(g.dias))
        d == Div(e, g.kwh_por_litro)
    IN  IF IsZero(g.kwh_por_litro)
        THEN [st EXCEPT !.err = "ZeroDivisionError"]
        ELSE [st EXCEPT
                !.resultados = Append(@, [Escenario |-> label, Energia |-> e,
                                          Diesel |-> d,
                                          CO2 |-> Mul(d, g.co2_por_litro),
                                          Ahorro |-> Mul(d, g.cop_diesel)]),
                !.out = @ \o <<"metric", "metric", "metric", "metric">>]

\* calcular_beneficios over the number of records the filter returned.
calcular_beneficios_por_registros(capacidad_kw, label, g, st) ==
    LET e == Mul(Mul(Mul(FromInt(capacidad_kw), g.H), g.PR), FromInt(Len(g.df_sim)))
        d == Div(e, g.kwh_por_litro)
    IN  IF IsZero(g.kwh_por_litro)
        THEN [st EXCEPT !.err = "ZeroDivisionError"]
        ELSE [st EXCEPT
                !.resultados = Append(@, [Escenario |-> label, Energia |-> e,
                                          Diesel |-> d,
                                          CO2 |-> Mul(d, g.co2_por_litro),
                                          Ahorro |-> Mul(d, g.cop_diesel)]),
                !.out = @ \o <<"metric", "metric", "metric", "metric">>]

\* g holds the module globals the function reads; st is what it changes:
\* the result list, the emitted elements and the exception raised, if any.
calcular_beneficios(capacidad_kw, label, g, st) ==
    LET energia_generada_kwh ==
            Mul(Mul(Mul(FromInt(capacidad_kw), g.H), g.PR), FromInt(g.dias))
    IN  IF IsZero(g.kwh_por_litro)
        THEN [st EXCEPT !.err = "ZeroDivisionError"]
        ELSE
        LET diesel_ahorrado_l == Div(energia_generada_kwh, g.kwh_por_litro)
            co2_ev_l          == Mul(diesel_ahorrado_l, g.co2_por_litro)
            ahorro_cop        == Mul(diesel_ahorrado_l, g.cop_diesel)
        IN  [st EXCEPT
                !.resultados = Append(@, [Escenario |-> label,
                                          Energia   |-> energia_generada_kwh,
                                          Diesel    |-> diesel_ahorrado_l,
                                          CO2       |-> co2_ev_l,
                                          Ahorro    |-> ahorro_cop]),
                !.out = @ \o <<"metric", "metric", "metric", "metric">>]

\* 100 if "Pequena" in nombre else 1000 if "Mediana" in nombre else 5000
capacidad_de(nombre) ==
    IF Contains(s_Pequena, nombre) THEN 100
    ELSE IF Contains(s_Mediana, nombre) THEN 1000
    ELSE 5000

\* for nombre, activo in escenarios.items(): from the i-th item on.
RECURSIVE Bucle(_, _, _, _)
Bucle(i, escs, g, st) ==
    IF i > Len(nombres) \/ st.err # "" THEN st
    ELSE IF escs[i]
         THEN Con(calcular_beneficios(capacidad_de(nombres[i]), nombres[i], g,
                                      [st EXCEPT !.out = Append(@, "expander")]),
                  LAMBDA st2 : Bucle(i + 1, escs, g, st2))
         ELSE Bucle(i + 1, escs, g, st)

\* The result list kept from the cycle before.
lista_conservada(anterior) == anterior

\* resultados = []  (whatever the name was bound to before)
lista_nueva(anterior) == <<>>

----------------------------------------------------------------------------
(* One execution of the script, top to bottom.                             *)

\* Lines 11-28: the sidebar widgets.
Sidebar ==
    <<"sidebar.header", "sidebar.slider", "sidebar.slider", "sidebar.selectbox",
      "sidebar.subheader", "sidebar.checkbox", "sidebar.checkbox",
      "sidebar.checkbox", "sidebar.number_input", "sidebar.number_input",
      "sidebar.number_input">>

\* The names of a cycle before anything is assigned to them.
SinAsignar ==
    [err |-> "", dias |-> 0, df |-> <<>>, df_predicha |-> <<>>, df_sim |-> <<>>,
     inicio_pred |-> None, resultados |-> <<>>, out |-> <<>>]

\* file: the CSV; w: the widget values; tb: how the sort breaks ties;
\* anterior: the result list left by the cycle before.  The result has the
\* names of the script at the end of the cycle, or at the uncaught exception
\* (err) that ended it.
RunScript(file, w, tb, anterior) ==
    IF "Fecha" \notin file.columns
    THEN [SinAsignar EXCEPT !.err = "ValueError"]
    ELSE
    LET df1   == sort_values(file.rows, tb)
        dias1 == dias_de(w.horizonte)
        r1    == [SinAsignar EXCEPT !.df = df1, !.dias = dias1, !.out = Sidebar]
    IN
    IF "Tipo" \notin file.columns
    THEN [r1 EXCEPT !.err = "KeyError"]
    ELSE
    LET pred1 == PorTipo(df1, s_predicha)
        sim1  == head(pred1, dias1)
        df2   == sort_values(CapitalizarTipo(df1), tb)
        ini   == IF \E i \in 1..Len(df2) : df2[i].Tipo = s_Predicha
                 THEN FechaMin(PorTipo(df2, s_Predicha))
                 ELSE None
        r2    == [r1 EXCEPT !.df_predicha = pred1, !.df_sim = sim1, !.df = df2,
                            !.inicio_pred = ini,
                            !.out = @ \o <<"title", "subheader", "markdown">>]
    IN
    IF "ACTIVA" \notin file.columns
    THEN [r2 EXCEPT !.err = "ValueError"]
    ELSE
    LET g  == [H |-> w.H, PR |-> w.PR, dias |-> dias1,
               kwh_por_litro |-> w.kwh_por_litro,
               co2_por_litro |-> w.co2_por_litro,
               cop_diesel |-> w.cop_diesel, df_sim |-> sim1]
        st == Bucle(1, w.escenarios, g,
                    [err |-> "", resultados |-> lista_nueva(anterior),
                     out |-> r2.out \o <<"plotly_chart:fig", "subheader", "markdown">>])
        r3 == [r2 EXCEPT !.err = st.err, !.resultados = st.resultados, !.out = st.out]
    IN
    IF st.err # "" THEN r3
    ELSE [r3 EXCEPT !.out =
              (IF st.resultados # <<>>
               THEN @ \o <<"subheader", "plotly_chart:fig_barras">>
               ELSE @) \o <<"caption">>]

----------------------------------------------------------------------------
(* Inputs.                                                                 *)

MaxHist == 1
MaxPred == 8

s_PREDICHA  == <<"P", "R", "E", "D", "I", "C", "H", "A">>
s_historica == <<"h", "i", "s", "t", "o", "r", "i", "c", "a">>
EtiquetasPredicha == {s_predicha, s_Predicha, s_PREDICHA}
Ordenes == {"asc", "desc", "pares"}

\* A file with nHist historical rows followed in time by nPred predicted
\* rows, one per day, written in the given order; "pares" gives every date
\* to two consecutive rows.  A column the file lacks holds nothing.
Archivo(cols, nHist, nPred, etiqueta, orden) ==
    LET n == nHist + nPred
        base == [i \in 1..n |->
                   [Fecha  |-> IF "Fecha" \notin cols THEN 0
                               ELSE IF orden = "pares" THEN (i + 1) \div 2 ELSE i,
                    ACTIVA |-> IF "ACTIVA" \in cols THEN 10 + i ELSE 0,
                    Tipo   |-> IF "Tipo" \notin cols THEN <<>>
                               ELSE IF i <= nHist THEN s_historica ELSE etiqueta]]
    IN  [columns |-> cols, rows |-> IF orden = "asc" THEN base ELSE Reverse(base)]

ArchivosCompletos ==
    {Archivo(Columnas, h, p, e, o) :
        h \in 0..MaxHist, p \in 0..MaxPred, e \in EtiquetasPredicha, o \in Ordenes}

ArchivosIncompletos ==
    {Archivo(Columnas \ {c}, 1, p, s_predicha, "asc") : c \in Columnas, p \in {0, 2}}

Archivos == ArchivosCompletos \cup ArchivosIncompletos

\* The files of the parameter specification: more predicted rows than the
\* shortest horizon, fewer than every horizon, and none.
ArchivosBase ==
    {Archivo(Columnas, 1, MaxPred, s_predicha, "desc"),
     Archivo(Columnas, 1, 2, s_predicha, "pares"),
     Archivo(Columnas, 1, 0, s_predicha, "asc")}

\* Values the widgets can be set to: the slider ends and defaults, and
\* numbers typed into the unbounded number inputs.
HValues   == {H_min, H_default, H_max}
PRValues  == {PR_min, PR_default, PR_max}
KwhValues == {Rat(-30, 10), Rat(0, 10), kwh_default}
Co2Values == {Rat(0, 10), co2_default}
CopValues == {Rat(0, 100), cop_default}

----------------------------------------------------------------------------
(* State.                                                                  *)

VARIABLES csv, H, PR, horizonte, escenarios, kwh_por_litro, co2_por_litro,
          cop_diesel, dias, df, df_predicha, df_sim, inicio_pred, resultados,
          out, err

widgets == <<H, PR, horizonte, escenarios, kwh_por_litro, co2_por_litro, cop_diesel>>
nombres_del_ciclo == <<dias, df, df_predicha, df_sim, inicio_pred, resultados, out, err>>
vars == <<csv, widgets, nombres_del_ciclo>>

W == [H |-> H, PR |-> PR, horizonte |-> horizonte, escenarios |-> escenarios,
      kwh_por_litro |-> kwh_por_litro, co2_por_litro |-> co2_por_litro,
      cop_diesel |-> cop_diesel]

\* The cycle's names are those RunScript leaves.
Deja(r) ==
    /\ dias' = r.dias
    /\ df' = r.df
    /\ df_predicha' = r.df_predicha
    /\ df_sim' = r.df_sim
    /\ inicio_pred' = r.inicio_pred
    /\ resultados' = r.resultados
    /\ out' = r.out
    /\ err' = r.err

\* A render cycle over the (new) file and widget values.
Ciclo ==
    \E tb \in Desempates :
        \E r \in {RunScript(csv', W', tb, resultados)} : Deja(r)

WidgetsDefault ==
    /\ H = H_default
    /\ PR = PR_default
    /\ horizonte = opciones[1]
    /\ escenarios = escenarios_default
    /\ kwh_por_litro = kwh_default
    /\ co2_por_litro = co2_default
    /\ cop_diesel = cop_default

\* The first cycle of a session.
Primero(files) ==
    /\ csv \in files
    /\ WidgetsDefault
    /\ \E tb \in Desempates :
         \E r \in {RunScript(csv, W, tb, <<>>)} :
             /\ dias = r.dias
             /\ df = r.df
             /\ df_predicha = r.df_predicha
             /\ df_sim = r.df_sim
             /\ inicio_pred = r.inicio_pred
             /\ resultados = r.resultados
             /\ out = r.out
             /\ err = r.err

Init == Primero(ArchivosBase)

CambiarH ==
    /\ \E v \in HValues \ {H} : H' = v
    /\ UNCHANGED <<csv, PR, horizonte, escenarios, kwh_por_litro, co2_por_litro, cop_diesel>>
    /\ Ciclo

CambiarPR ==
    /\ \E v \in PRValues \ {PR} : PR' = v
    /\ UNCHANGED <<csv, H, horizonte, escenarios, kwh_por_litro, co2_por_litro, cop_diesel>>
    /\ Ciclo

CambiarHorizonte ==
    /\ \E i \in 1..Len(opciones) : opciones[i] # horizonte /\ horizonte' = opciones[i]
    /\ UNCHANGED <<csv, H, PR, escenarios, kwh_por_litro, co2_por_litro, cop_diesel>>
    /\ Ciclo

CambiarEscenario ==
    /\ \E i \in 1..Len(nombres) : escenarios' = [escenarios EXCEPT ![i] = ~@]
    /\ UNCHANGED <<csv, H, PR, horizonte, kwh_por_litro, co2_por_litro, cop_diesel>>
    /\ Ciclo

CambiarKwh ==
    /\ \E v \in KwhValues \ {kwh_por_litro} : kwh_por_litro' = v
    /\ UNCHANGED <<csv, H, PR, horizonte, escenarios, co2_por_litro, cop_diesel>>
    /\ Ciclo

CambiarCo2 ==
    /\ \E v \in Co2Values \ {co2_por_litro} : co2_por_litro' = v
    /\ UNCHANGED <<csv, H, PR, horizonte, escenarios, kwh_por_litro, cop_diesel>>
    /\ Ciclo

CambiarCop ==
    /\ \E v \in CopValues \ {cop_diesel} : cop_diesel' = v
    /\ UNCHANGED <<csv, H, PR, horizonte, escenarios, kwh_por_litro, co2_por_litro>>
    /\ Ciclo

\* The user asks for a rerun with nothing changed.
Rerun ==
    /\ UNCHANGED <<csv, widgets>>
    /\ Ciclo

\* The file on disk is replaced and the script runs again.
RecargarArchivo ==
    /\ \E f \in Archivos \ {csv} : csv' = f
    /\ UNCHANGED widgets
    /\ Ciclo

Next ==
    \/ CambiarH
    \/ CambiarPR
    \/ CambiarHorizonte
    \/ CambiarEscenario
    \/ CambiarKwh
    \/ CambiarCo2
    \/ CambiarCop
    \/ Rerun

Spec == Init /\ [][Next]_vars

\* The session seen from the data side: any file, the horizon and reruns.
InitData == Primero(Archivos)

NextData ==
    \/ RecargarArchivo
    \/ CambiarHorizonte
    \/ Rerun

SpecData == InitData /\ [][NextData]_vars

----------------------------------------------------------------------------
(* Vocabulary of the properties.                                           *)

\* The capacity catalog of the specification: Small, Medium, Large.
Catalogo == <<100, 1000, 5000>>

\* The horizon the user selected, read off the option itself.
DiasElegidos ==
    CASE horizonte = opciones[1] -> 7
      [] horizonte = opciones[2] -> 15
      [] horizonte = opciones[3] -> 30

Cero == FromInt(0)

\* The ScenarioParameters bounds of the specification.
Admisible ==
    /\ Leq(H_min, H) /\ Leq(H, H_max)
    /\ Leq(PR_min, PR) /\ Leq(PR, PR_max)
    /\ dias \in {7, 15, 30}
    /\ Less(Cero, kwh_por_litro)
    /\ Leq(Cero, co2_por_litro)
    /\ Leq(Cero, cop_diesel)

ArchivoCompleto(f) == f.columns = Columnas

\* The indices of the active tiers, in catalog order.
Activos(escs) == LET Activo(i) == escs[i] IN SelectSeq(<<1, 2, 3>>, Activo)

\* r.Energia = c * h * pr * d, by cross-multiplication.
EnergiaEs(r, c, h, pr, d) ==
    r.Energia.num * (h.den * pr.den) = c * h.num * pr.num * d * r.Energia.den

\* z = x * y, stated through the inverse operation.
EsProducto(z, x, y) == IF IsZero(y) THEN IsZero(z) ELSE Div(z, y) = x

\* r is the BenefitResult of capacity c under the current parameters.
EsBeneficio(r, c) ==
    /\ EnergiaEs(r, c, H, PR, DiasElegidos)
    /\ Mul(r.Diesel, kwh_por_litro) = r.Energia
    /\ EsProducto(r.CO2, r.Diesel, co2_por_litro)
    /\ EsProducto(r.Ahorro, r.Diesel, cop_diesel)

EsEscenarioE2E ==
    /\ H = Rat(45, 10) /\ PR = Rat(80, 100) /\ DiasElegidos = 30
    /\ kwh_por_litro = FromInt(3) /\ co2_por_litro = Rat(22, 10)
    /\ cop_diesel = Rat(255359, 100)
    /\ escenarios[2]

----------------------------------------------------------------------------
\* C1: under admissible parameters, every active tier has its BenefitResult
\* appended, with energy = capacity*H*PR*days, diesel = energy/kwh_per_liter,
\* co2 = diesel*co2_per_liter and cost = diesel*price_per_liter; the 1000 kW
\* example gives 108000, 36000, 79200 and 91929240.
C1_BenefitFormulas ==
    Admisible =>
        /\ \A i \in 1..3 :
              escenarios[i] =>
                 \E k \in 1..Len(resultados) :
                    /\ resultados[k].Escenario = nombres[i]
                    /\ EsBeneficio(resultados[k], Catalogo[i])
        /\ EsEscenarioE2E =>
              \E k \in 1..Len(resultados) :
                 resultados[k] = [Escenario |-> n_Mediana,
                                  Energia |-> FromInt(108000),
                                  Diesel  |-> FromInt(36000),
                                  CO2     |-> FromInt(79200),
                                  Ahorro  |-> FromInt(91929240)]

\* The end-to-end example has been computed.
C1_Witness ==
    /\ EsEscenarioE2E
    /\ err = ""
    /\ \E k \in 1..Len(resultados) :
          resultados[k].Escenario = n_Mediana /\ resultados[k].Energia = FromInt(108000)

\* C2: with kwh_per_liter zero or negative and a tier active, the cycle fails
\* with an error and no BenefitResult is appended or displayed.
C2_NonPositiveKwhFails ==
    (~Less(Cero, kwh_por_litro) /\ Activos(escenarios) # <<>>) =>
        /\ err # ""
        /\ resultados = <<>>
        /\ \A k \in 1..Len(out) : out[k] # "metric"

----------------------------------------------------------------------------
\* A record is of kind Predicted when its label, whatever its letter case,
\* normalizes to "Predicha".
EsPredicha(row) == capitalize(row.Tipo) = s_Predicha

Predichas(rows) == {i \in 1..Len(rows) : EsPredicha(rows[i])}

Min(a, b) == IF a < b THEN a ELSE b

\* sim is the m earliest-dated Predicted records of rows, in date order.
PrimerasPredichas(sim, rows, m) ==
    /\ Len(sim) = m
    /\ \A k \in 1..Len(sim) :
          /\ EsPredicha(sim[k])
          /\ \E i \in Predichas(rows) :
                rows[i].Fecha = sim[k].Fecha /\ rows[i].ACTIVA = sim[k].ACTIVA
          /\ k > 1 => sim[k - 1].Fecha <= sim[k].Fecha
          /\ Cardinality({i \in Predichas(rows) : rows[i].Fecha < sim[k].Fecha}) <= k - 1

\* C3: df_sim is exactly the min(horizon, n) earliest-dated Predicted
\* records, in non-decreasing date order, n being the number of Predicted
\* records of the file; fewer than the horizon is no error.
C3_FilterTruncates ==
    ArchivoCompleto(csv) =>
        /\ err = ""
        /\ PrimerasPredichas(df_sim, csv.rows,
                             Min(DiasElegidos, Cardinality(Predichas(csv.rows))))

\* The same statement for the files whose Predicted labels are all written
\* "predicha", in lower case: there it holds.
C3_EnMinusculas ==
    (/\ ArchivoCompleto(csv)
     /\ \A i \in Predichas(csv.rows) : csv.rows[i].Tipo = s_predicha) =>
        /\ err = ""
        /\ PrimerasPredichas(df_sim, csv.rows,
                             Min(DiasElegidos, Cardinality(Predichas(csv.rows))))

----------------------------------------------------------------------------
\* Two files that differ only in the letter case of their Tipo labels.
MismoSalvoCaja(f1, f2) ==
    /\ f1.columns = f2.columns
    /\ CapitalizarTipo(f1.rows) = CapitalizarTipo(f2.rows)

Filas(rows) == {[Fecha |-> rows[i].Fecha, ACTIVA |-> rows[i].ACTIVA] : i \in 1..Len(rows)}

s_Historica == capitalize(s_historica)

\* C4: the kind label is normalized before anything reads it: two files that
\* differ only in the letter case of their labels give the same records from
\* the predicted-record filter and the same prediction start date, and every
\* record's kind is one of the two normalized values.
C4_CaseInsensitive ==
    [][(/\ ArchivoCompleto(csv) /\ ArchivoCompleto(csv')
        /\ MismoSalvoCaja(csv, csv')
        /\ horizonte' = horizonte) =>
            /\ Filas(df_predicha') = Filas(df_predicha)
            /\ Filas(df_sim') = Filas(df_sim)
            /\ inicio_pred' = inicio_pred
            /\ \A i \in 1..Len(df') : df'[i].Tipo \in {s_Predicha, s_Historica}]_vars

----------------------------------------------------------------------------
Visibles == {"title", "caption", "metric", "plotly_chart:fig", "plotly_chart:fig_barras"}

\* C5: a file lacking Fecha, ACTIVA or Tipo aborts the run before any title,
\* caption, chart or metric is emitted.
C5_MissingColumnAborts ==
    ~ArchivoCompleto(csv) =>
        /\ err # ""
        /\ \A k \in 1..Len(out) : out[k] \notin Visibles

----------------------------------------------------------------------------
\* The k-th entry of res is that of the k-th active tier of escs, computed
\* with its catalog capacity under h, pr and d days.
EntradaDeActivo(res, k, escs, h, pr, d) ==
    /\ k <= Len(Activos(escs))
    /\ res[k].Escenario = nombres[Activos(escs)[k]]
    /\ EnergiaEs(res[k], Catalogo[Activos(escs)[k]], h, pr, d)

\* C6: the result list at the end of a cycle depends only on that cycle's
\* parameters and toggles: it holds entries of this cycle only (at most one
\* per active tier, computed under the new parameters), and a cycle with the
\* same file, parameters and toggles leaves the same list.
C6_RecreatedEachCycle ==
    [][/\ (W' = W /\ csv' = csv) => resultados' = resultados
       /\ \A k \in 1..Len(resultados') :
             EntradaDeActivo(resultados', k, escenarios', H', PR', DiasElegidos')]_vars

\* A cycle that follows changes of toggles and parameters and has results.
C6_Witness ==
    /\ escenarios = <<FALSE, TRUE, TRUE>>
    /\ H = H_max /\ PR = PR_min /\ DiasElegidos = 15
    /\ Len(resultados) = 2

\* C7: the parameters that reach the benefit calculation are within the
\* ScenarioParameters bounds; the parameter surface accepts nothing else.
C7_ParametersWithinBounds ==
    /\ Leq(H_min, H) /\ Leq(H, H_max)
    /\ Leq(PR_min, PR) /\ Leq(PR, PR_max)
    /\ DiasElegidos \in {7, 15, 30} /\ dias = DiasElegidos
    /\ Less(Cero, kwh_por_litro)
    /\ ~IsNeg(co2_por_litro)
    /\ ~IsNeg(cop_diesel)

----------------------------------------------------------------------------
\* Capacities the function is compared on, the catalog among them.
Capacidades == {1, 2, 100, 1000, 5000}

TodosPositivos ==
    /\ Less(Cero, H) /\ Less(Cero, PR) /\ dias > 0
    /\ Less(Cero, kwh_por_litro) /\ Less(Cero, co2_por_litro) /\ Less(Cero, cop_diesel)

\* The globals of the current cycle.
G == [H |-> H, PR |-> PR, dias |-> dias, kwh_por_litro |-> kwh_por_litro,
      co2_por_litro |-> co2_por_litro, cop_diesel |-> cop_diesel, df_sim |-> df_sim]

\* What calcular_beneficios appends for capacity c under the current globals.
Beneficio(c) ==
    calcular_beneficios(c, <<>>, G, [err |-> "", resultados |-> <<>>, out |-> <<>>]).resultados[1]

MenorEnTodo(a, b) ==
    /\ Less(a.Energia, b.Energia)
    /\ Less(a.Diesel, b.Diesel)
    /\ Less(a.CO2, b.CO2)
    /\ Less(a.Ahorro, b.Ahorro)

\* C8: with all parameters positive, a larger capacity gives strictly larger
\* energy, diesel, CO2 and cost; the Small, Medium and Large results are
\* strictly increasing in the four metrics.
C8_MonotoneInCapacity ==
    TodosPositivos =>
        /\ \A c1, c2 \in Capacidades :
              c1 < c2 => MenorEnTodo(Beneficio(c1), Beneficio(c2))
        /\ \A k \in 1..(Len(resultados) - 1) :
              MenorEnTodo(resultados[k], resultados[k + 1])

\* The three tiers have been computed under positive, non-default parameters.
C8_Witness ==
    /\ TodosPositivos
    /\ H = H_max /\ PR = PR_max
    /\ Len(resultados) = 3

----------------------------------------------------------------------------
\* C9: for each combination of the toggles, the result list holds exactly
\* one entry per active tier and none for an inactive one, in catalog order,
\* each computed with its catalog capacity, and the comparison chart is
\* rendered exactly when at least one tier is active.
C9_OneEntryPerActiveTier ==
    /\ Len(resultados) = Len(Activos(escenarios))
    /\ \A k \in 1..Len(resultados) :
          EntradaDeActivo(resultados, k, escenarios, H, PR, DiasElegidos)
    /\ (\E k \in 1..Len(out) : out[k] = "plotly_chart:fig_barras")
          <=> Activos(escenarios) # <<>>

----------------------------------------------------------------------------
\* C10: the demand records never influence a BenefitResult: with parameters
\* and toggles fixed, a run on another record set leaves the same result
\* list, computed over the full selected horizon whatever the number of
\* records the filter returned.
C10_RecordsDoNotInfluence ==
    [][/\ (ArchivoCompleto(csv) /\ ArchivoCompleto(csv') /\ W' = W)
             => resultados' = resultados
       /\ ArchivoCompleto(csv') =>
             /\ Len(resultados') = Len(Activos(escenarios'))
             /\ \A k \in 1..Len(resultados') :
                   EntradaDeActivo(resultados', k, escenarios', H', PR', DiasElegidos')]_vars

\* Results over a 30-day horizon on a file with only two predicted records.
C10_Witness ==
    /\ ArchivoCompleto(csv)
    /\ DiasElegidos = 30
    /\ Cardinality(Predichas(csv.rows)) = 2
    /\ Len(df_sim) = 2
    /\ Len(resultados) = 3

====
